---------------------------- MODULE Spec2Model ----------------------------
(***************************************************************************)
(* One wallet's worker of bot.py: CryptoMiner with its MiningSession and   *)
(* its APIClient, run by MiningSupervisor, over process starts, kills and  *)
(* the SIGINT handler; and MiningSupervisor's loops over a list of         *)
(* wallets, with the handler entered again by repeated signals.            *)
(*                                                                         *)
(* Amounts are integers in units of 1e-6 KLDO and the referral bonus is in *)
(* tenths, so that 75.5 * t * 0.0001 * (1 + b/10) = 755 * t * (10 + b).    *)
(* Time is in seconds of the wall clock (time.time()).                     *)
(***************************************************************************)
EXTENDS Integers, Sequences, FiniteSets, TLC

VARIABLES
    pc,          \* where the process is ("off": no process is running)
    now,         \* the wall clock, time.time()
    data,        \* MiningSession.data of the running process
    active,      \* CryptoMiner.active
    minerStart,  \* CryptoMiner.start_time
    file,        \* the wallet's <wallet>_mining.dat
    loadResult,  \* what MiningSession.load returned in this process
    script,      \* how the network answers each attempt of the current call
    tries,       \* handle_errors: invocations of func in the current call
    slept,       \* handle_errors: the time.sleep delays of the current call
    callEnd,     \* how the current remote call ended
    result,      \* what the last remote call returned to its caller
    payload,     \* new_balance of the last _update_server_balance
    computedAt,  \* the clock value _calculate_production read for payload
    pendingFlush,\* a save interrupted by the signal handler holds an open file
    report,      \* what shutdown printed
    runs,        \* process starts so far
    cycles,      \* mining intervals so far
    calls,       \* remote calls made by the bare client
    regressions, \* backward adjustments of the wall clock so far
    interrupted, \* where the worker was when the signal handler was entered
    acked        \* the last `total` the remote service acknowledged

\* MiningSupervisor with its list of miners (the workers reduced to what the
\* supervisor's loops and the handler read and write)
VARIABLES
    sup,         \* where start_operation is
    configured,  \* how many addresses load_addresses returned
    miners,      \* MiningSupervisor.miners, a list of wallet numbers
    cursor,      \* index of the list iterator of start_operation's current loop
    current,     \* the miner whose run_mining_cycle is executing (0: none)
    phase,       \* where that run_mining_cycle is: at `while self.active` or past it
    sessions,    \* MiningSession.data of each miner
    actives,     \* CryptoMiner.active of each miner
    attempted,   \* how initialize_miner ended for each miner in this process
    ticks,       \* periodic reconciliations each miner performed
    finals,      \* final reconciliations (shutdown) each miner performed
    handlers,    \* the emergency_stop frames on the stack: their loop indexes
    signals      \* SIGINTs delivered so far

workerVars == <<pc, now, data, active, minerStart, file, loadResult, script, tries,
                slept, callEnd, result, payload, computedAt, pendingFlush, report,
                runs, cycles, calls, regressions, interrupted, acked>>

supVars == <<sup, configured, miners, cursor, current, phase, sessions, actives,
             attempted, ticks, finals, handlers, signals>>

vars == <<workerVars, supVars>>

----------------------------------------------------------------------------
(* Bounds of the model *)

MaxRuns == 2
MaxCycles == 2
MaxCalls == 2
MaxRegressions == 1
T0 == 100
NWallets == 3
MaxTicks == 2
MaxSignals == 2
MaxElapsed == 100

(* Program constants *)

MaxAttempts == 5
Interval == 30
RateMicro == 755
BonusUnit == 10
None == -1

\* referralBonus values a registration response may carry (tenths)
Bonuses == {0, 2}

\* by how much the wall clock may be set back
Skews == {3 * Interval}

----------------------------------------------------------------------------
(* MiningSession *)

DefaultData ==
    [start_time |-> None, total_earned |-> 0, paid_out |-> 0, referral_bonus |-> 0]

AbsentFile == [state |-> "absent", rec |-> DefaultData]
PartialFile == [state |-> "partial", rec |-> DefaultData]
SavedFile(d) == [state |-> "ok", rec |-> d]

\* os.path.exists(file_name)
Exists(f) == f.state # "absent"

\* json.load succeeds only on a complete record
LoadOk(f) == f.state = "ok"

\* MiningSession.load: the data and the value returned
LoadedData(f) == IF LoadOk(f) THEN f.rec ELSE DefaultData
LoadReturn(f) == IF LoadOk(f) THEN "true" ELSE "false"

\* MiningSession.save, first half: open(file_name, 'w') truncates the file
TruncatedFile == PartialFile

----------------------------------------------------------------------------
(* APIClient *)

NoResponse == [got |-> FALSE, ok |-> FALSE, isRegistered |-> FALSE, bonus |-> 0]

\* the remote service has acknowledged no balance yet
NoAck == [got |-> FALSE, total |-> 0]

\* what session.get may return for check-registration
RegistrationResponses ==
    {[got |-> TRUE, ok |-> TRUE, isRegistered |-> TRUE, bonus |-> b] : b \in Bonuses}
    \cup {[got |-> TRUE, ok |-> TRUE, isRegistered |-> FALSE, bonus |-> 0],
          [got |-> TRUE, ok |-> FALSE, isRegistered |-> FALSE, bonus |-> 0]}

\* what session.post may return for update-balance
BalanceResponses ==
    {[got |-> TRUE, ok |-> o, isRegistered |-> FALSE, bonus |-> 0] : o \in BOOLEAN}

\* how one invocation of func ends: with a response, with a ConnectionError or
\* Timeout ("transient"), or with another RequestException ("rejected")
Transient == [kind |-> "transient", resp |-> NoResponse]
Rejected == [kind |-> "rejected", resp |-> NoResponse]
Responded(r) == [kind |-> "response", resp |-> r]

OutcomesOf(responses) == {Transient, Rejected} \cup {Responded(r) : r \in responses}

\* a caller that takes any returned value for an acknowledgement
TruthyAlways(r) == TRUE

\* bool(response): None is falsy, a Response is truthy iff its status is < 400
Truthy(r) == r.got /\ r.ok

RECURSIVE Pow2(_)
Pow2(k) == IF k = 0 THEN 1 ELSE 2 * Pow2(k - 1)

\* a backoff that starts at 2 seconds
BackoffNext(k) == Pow2(k + 1)

\* time.sleep(2**attempt)
Backoff(k) == Pow2(k)

\* a wrapper that retries after any exception
RetriedAny(kind) == kind # "response"

\* the except clause that keeps the loop going
Retried(kind) == kind = "transient"

\* the wrapper's loop from `attempt` = k on, having slept `sl` so far
RECURSIVE WrapperLoop(_, _, _)
WrapperLoop(s, k, sl) ==
    IF k >= MaxAttempts
    THEN [result |-> NoResponse, callEnd |-> "exhausted", tries |-> k, slept |-> sl]
    ELSE IF s[k + 1].kind = "response"
    THEN [result |-> s[k + 1].resp, callEnd |-> "response", tries |-> k + 1, slept |-> sl]
    ELSE IF Retried(s[k + 1].kind)
    THEN WrapperLoop(s, k + 1, Append(sl, Backoff(k)))
    ELSE [result |-> NoResponse, callEnd |-> "rejected", tries |-> k + 1, slept |-> sl]

\* handle_errors' wrapper, the network answering attempt k (from 0) with s[k + 1]
HandleErrors(s) == WrapperLoop(s, 0, <<>>)

RECURSIVE SumSeq(_)
SumSeq(q) == IF q = <<>> THEN 0 ELSE Head(q) + SumSeq(Tail(q))

\* n transient failures, then outcome o (attempts past it are never made)
FailThen(n, o) ==
    [k \in 1..MaxAttempts |-> IF k <= n THEN Transient ELSE IF k = n + 1 THEN o ELSE Transient]

Always(o) == [k \in 1..MaxAttempts |-> o]

\* every way the network may answer the attempts one call makes
AllScripts(responses) ==
    {FailThen(n, o) : n \in 0..(MaxAttempts - 1), o \in OutcomesOf(responses)}

\* the answers the worker's calls are tried on when it runs among kills, signals
\* and clock changes: an immediate response, an immediate rejection, and five
\* transient failures
WorkerScripts(responses) ==
    {FailThen(0, o) : o \in OutcomesOf(responses) \ {Transient}} \cup {Always(Transient)}

NoScript == Always(Transient)

----------------------------------------------------------------------------
(* CryptoMiner *)

\* a production that leaves the referral bonus out
ProductionNoBonus(d, t) == RateMicro * (t - d.start_time) * BonusUnit

\* _calculate_production at clock value t
Production(d, t) == RateMicro * (t - d.start_time) * (BonusUnit + d.referral_bonus)

\* new_balance of _update_server_balance
NewBalance(d, p, final) ==
    [total |-> d.total_earned + p,
     pending |-> IF final THEN 0 ELSE p,
     paid |-> d.paid_out + (IF final THEN p ELSE 0)]

NoPayload == [total |-> 0, pending |-> 0, paid |-> 0]

\* a commit that leaves paid_out alone
CommitDataTotalOnly(d, nb, final) == [d EXCEPT !.total_earned = nb.total]

\* the commit of _update_server_balance after an acknowledged push
CommitData(d, nb, final) ==
    [d EXCEPT !.paid_out = IF final THEN nb.paid ELSE d.paid_out,
              !.total_earned = nb.total]

\* an initialization that never looks at the loaded start_time
StartTimeUnsetAlways(d) == TRUE

\* `not self.session.data['start_time']`
StartTimeUnset(d) == d.start_time = None \/ d.start_time = 0

\* initialize_miner after a registered response
InitializedData(d, r, t) ==
    IF StartTimeUnset(d)
    THEN [d EXCEPT !.start_time = t, !.referral_bonus = r.bonus]
    ELSE d

\* `if not response or not response.json().get('isRegistered')`
RegistrationRefused(r) == ~Truthy(r) \/ ~r.isRegistered

NoReport == [kind |-> "none", paid |-> 0]

\* shutdown's print
ShutdownReport(d, r) == [kind |-> "stopped", paid |-> d.paid_out]

\* the file left behind when the process exits while a save that the signal
\* handler interrupted still holds its open file: the with block closes it and
\* its buffered text (nothing, a part of the dump or all of it) lands at the
\* start of whatever the file holds by then
NoFlush == [open |-> FALSE, rec |-> DefaultData]

FlushOutcomes(f, pf) ==
    IF ~pf.open THEN {f}
    ELSE IF f.state = "ok"
         THEN {f, PartialFile, SavedFile(pf.rec),
               SavedFile([f.rec EXCEPT !.total_earned = pf.rec.total_earned])}
         ELSE {PartialFile, SavedFile(pf.rec)}

----------------------------------------------------------------------------
(* The state machine *)

CallPcs == {"registering", "push", "final"}
ReturnPc(p) ==
    CASE p = "registering" -> "reg_ret"
      [] p = "push" -> "push_ret"
      [] p = "final" -> "final_ret"

ResponsesOf(p) == IF p = "registering" THEN RegistrationResponses ELSE BalanceResponses

\* no process has run yet
WorkerInit ==
    /\ pc = "off"
    /\ now = T0
    /\ data = DefaultData
    /\ active = FALSE
    /\ minerStart = None
    /\ file = AbsentFile
    /\ loadResult = "none"
    /\ script = NoScript
    /\ tries = 0
    /\ slept = <<>>
    /\ callEnd = "none"
    /\ result = NoResponse
    /\ payload = NoPayload
    /\ computedAt = None
    /\ pendingFlush = NoFlush
    /\ report = NoReport
    /\ runs = 0
    /\ cycles = 0
    /\ calls = 0
    /\ regressions = 0
    /\ interrupted = "none"
    /\ acked = NoAck

Wallets == 1..NWallets

\* the supervisor has not been started
SupervisorOff ==
    /\ sup = "off"
    /\ configured = 0
    /\ miners = <<>>
    /\ cursor = 0
    /\ current = 0
    /\ phase = "test"
    /\ actives = [w \in Wallets |-> FALSE]
    /\ attempted = [w \in Wallets |-> "untried"]
    /\ ticks = [w \in Wallets |-> 0]
    /\ finals = [w \in Wallets |-> 0]
    /\ handlers = <<>>
    /\ signals = 0

Init ==
    /\ WorkerInit
    /\ SupervisorOff
    /\ sessions = [w \in Wallets |-> DefaultData]

\* no wrapper frame: before a call, and once its caller holds its value
NoCall ==
    /\ script' = NoScript
    /\ tries' = 0
    /\ slept' = <<>>
    /\ callEnd' = "none"

\* _update_server_balance has returned: its locals are gone
NoUpdate ==
    /\ payload' = NoPayload
    /\ computedAt' = None

\* MiningSupervisor.start_operation up to initialize_miner's remote call:
\* CryptoMiner.__init__ (load the session when its file exists)
StartProcess ==
    /\ pc = "off"
    /\ runs < MaxRuns
    /\ runs' = runs + 1
    /\ data' = IF Exists(file) THEN LoadedData(file) ELSE DefaultData
    /\ loadResult' = IF Exists(file) THEN LoadReturn(file) ELSE "none"
    /\ active' = FALSE
    /\ minerStart' = None
    /\ pc' = "registering"
    /\ UNCHANGED <<now, file, script, tries, slept, callEnd, result, payload,
                   computedAt, pendingFlush, report, cycles, calls, regressions,
                   interrupted, acked>>
    /\ UNCHANGED supVars

\* check_registration or update_balance under handle_errors: the whole call,
\* the network answering its attempts as `s` says
CallEffect(s) ==
    /\ pc \in CallPcs
    /\ script' = s
    /\ LET out == HandleErrors(s)
       IN  /\ result' = out.result
           /\ callEnd' = out.callEnd
           /\ tries' = out.tries
           /\ slept' = out.slept
           /\ now' = now + SumSeq(out.slept)
    /\ pc' = ReturnPc(pc)
    /\ UNCHANGED <<data, active, minerStart, file, loadResult, payload,
                   computedAt, pendingFlush, report, runs, cycles, regressions,
                   interrupted>>
    /\ UNCHANGED supVars

RemoteCall(s) ==
    /\ CallEffect(s)
    /\ UNCHANGED <<calls, acked>>

\* the process ends: its memory is gone
MemoryGone ==
    /\ data' = DefaultData
    /\ active' = FALSE
    /\ minerStart' = None
    /\ loadResult' = "none"
    /\ NoCall
    /\ result' = NoResponse
    /\ NoUpdate
    /\ pendingFlush' = NoFlush
    /\ report' = NoReport
    /\ interrupted' = "none"

\* initialize_miner after check_registration returned, and what start_operation
\* does with its value: a refused miner is removed and the process ends with
\* nothing to run; an accepted one enters run_mining_cycle
InitializeMiner ==
    /\ pc = "reg_ret"
    /\ IF RegistrationRefused(result)
       THEN /\ pc' = "off"
            /\ MemoryGone
       ELSE /\ data' = InitializedData(data, result, now)
            /\ minerStart' = data'.start_time
            /\ active' = TRUE
            /\ pc' = "mining"
            /\ NoCall
            /\ UNCHANGED <<loadResult, result, payload, computedAt,
                           pendingFlush, report, interrupted>>
    /\ UNCHANGED <<now, file, runs, cycles, calls, regressions, acked>>
    /\ UNCHANGED supVars

\* _update_server_balance up to the remote call
BeginUpdate(final, t) ==
    /\ computedAt' = t
    /\ payload' = NewBalance(data, Production(data, t), final)
    /\ NoCall
    /\ result' = NoResponse

\* run_mining_cycle: the mining interval, then _update_server_balance()
MiningInterval ==
    /\ pc = "mining"
    /\ active
    /\ cycles < MaxCycles
    /\ cycles' = cycles + 1
    /\ now' = now + Interval
    /\ BeginUpdate(FALSE, now')
    /\ pc' = "push"
    /\ UNCHANGED <<data, active, minerStart, file, loadResult, pendingFlush,
                   report, runs, calls, regressions, interrupted, acked>>
    /\ UNCHANGED supVars

\* _update_server_balance after update_balance returned (final = False):
\* commit and open the file, or return False
PushReturn ==
    /\ pc = "push_ret"
    /\ IF Truthy(result)
       THEN /\ data' = CommitData(data, payload, FALSE)
            /\ file' = TruncatedFile
            /\ pc' = "saving"
            /\ UNCHANGED <<payload, computedAt>>
       ELSE /\ pc' = "mining"
            /\ NoUpdate
            /\ UNCHANGED <<data, file>>
    /\ NoCall
    /\ UNCHANGED <<now, active, minerStart, loadResult, result, pendingFlush,
                   report, runs, cycles, calls, regressions, interrupted, acked>>
    /\ UNCHANGED supVars

\* MiningSession.save, second half: json.dump and close
SaveWrite ==
    /\ pc \in {"saving", "final_saving"}
    /\ file' = SavedFile(data)
    /\ pc' = IF pc = "saving" THEN "mining" ELSE "final_report"
    /\ NoUpdate
    /\ UNCHANGED <<now, data, active, minerStart, loadResult, script, tries,
                   slept, callEnd, result, pendingFlush, report, runs, cycles,
                   calls, regressions, interrupted, acked>>
    /\ UNCHANGED supVars

\* SIGINT once the handler is installed: emergency_stop calls shutdown, which
\* starts the final _update_server_balance on top of whatever was running
\* (run_mining_cycle's `except KeyboardInterrupt` is never entered: the handler
\* replaces the default one before the cycle starts)
Signal ==
    /\ pc \in {"mining", "push", "push_ret", "saving"}
    /\ active' = FALSE
    /\ BeginUpdate(TRUE, now)
    /\ pendingFlush' = IF pc = "saving" THEN [open |-> TRUE, rec |-> data] ELSE NoFlush
    /\ interrupted' = pc
    /\ pc' = "final"
    /\ UNCHANGED <<now, data, minerStart, file, loadResult, report, runs,
                   cycles, calls, regressions, acked>>
    /\ UNCHANGED supVars

\* _update_server_balance after update_balance returned (final = True)
FinalReturn ==
    /\ pc = "final_ret"
    /\ IF Truthy(result)
       THEN /\ data' = CommitData(data, payload, TRUE)
            /\ file' = TruncatedFile
            /\ pc' = "final_saving"
            /\ UNCHANGED <<payload, computedAt>>
       ELSE /\ pc' = "final_report"
            /\ NoUpdate
            /\ UNCHANGED <<data, file>>
    /\ NoCall
    /\ UNCHANGED <<now, active, minerStart, loadResult, result, pendingFlush,
                   report, runs, cycles, calls, regressions, interrupted, acked>>
    /\ UNCHANGED supVars

\* shutdown's last line
FinalReport ==
    /\ pc = "final_report"
    /\ report' = ShutdownReport(data, result)
    /\ pc' = "stopped"
    /\ UNCHANGED <<now, data, active, minerStart, file, loadResult, script,
                   tries, slept, callEnd, result, payload, computedAt,
                   pendingFlush, runs, cycles, calls, regressions, interrupted,
                   acked>>
    /\ UNCHANGED supVars

\* emergency_stop's exit()
Exit(f) ==
    /\ pc = "stopped"
    /\ f \in FlushOutcomes(file, pendingFlush)
    /\ file' = f
    /\ pc' = "off"
    /\ MemoryGone
    /\ UNCHANGED <<now, runs, cycles, calls, regressions, acked>>
    /\ UNCHANGED supVars

\* the process is killed (or dies of a SIGINT before the handler is installed)
Crash ==
    /\ pc # "off"
    /\ pc' = "off"
    /\ MemoryGone
    /\ UNCHANGED <<now, file, runs, cycles, calls, regressions, acked>>
    /\ UNCHANGED supVars

\* the wall clock is set back
ClockRegress(skew) ==
    /\ regressions < MaxRegressions
    /\ now - skew >= 1
    /\ now' = now - skew
    /\ regressions' = regressions + 1
    /\ UNCHANGED <<pc, data, active, minerStart, file, loadResult, script,
                   tries, slept, callEnd, result, payload, computedAt,
                   pendingFlush, report, runs, cycles, calls, interrupted, acked>>
    /\ UNCHANGED supVars

Next ==
    \/ StartProcess
    \/ \E s \in WorkerScripts(ResponsesOf(pc)) : RemoteCall(s)
    \/ InitializeMiner
    \/ MiningInterval
    \/ PushReturn
    \/ SaveWrite
    \/ Signal
    \/ FinalReturn
    \/ FinalReport
    \/ \E f \in FlushOutcomes(file, pendingFlush) : Exit(f)
    \/ Crash
    \/ \E skew \in Skews : ClockRegress(skew)

Spec == Init /\ [][Next]_vars

----------------------------------------------------------------------------
(* The worker left alone (no kill, no signal, a steady clock), the network *)
(* answering the attempts of each remote call in every possible way        *)

ClientCall(s) ==
    /\ calls < MaxCalls
    /\ calls' = calls + 1
    /\ CallEffect(s)
    /\ UNCHANGED acked

NextClient ==
    \/ StartProcess
    \/ \E s \in AllScripts(ResponsesOf(pc)) : ClientCall(s)
    \/ InitializeMiner
    \/ MiningInterval
    \/ PushReturn
    \/ SaveWrite

SpecClient == Init /\ [][NextClient]_vars

----------------------------------------------------------------------------
(* The worker among kills, signals and clock changes, with the remote       *)
(* service remembering the last total it acknowledged                       *)

\* update_balance answered with a 2xx: the service has taken payload.total
AckedCall(s) ==
    /\ CallEffect(s)
    /\ acked' = IF pc \in {"push", "final"} /\ HandleErrors(s).result.got
                                            /\ HandleErrors(s).result.ok
                THEN [got |-> TRUE, total |-> payload.total]
                ELSE acked
    /\ UNCHANGED calls

NextRemote ==
    \/ StartProcess
    \/ \E s \in WorkerScripts(ResponsesOf(pc)) : AckedCall(s)
    \/ InitializeMiner
    \/ MiningInterval
    \/ PushReturn
    \/ SaveWrite
    \/ Signal
    \/ FinalReturn
    \/ FinalReport
    \/ \E f \in FlushOutcomes(file, pendingFlush) : Exit(f)
    \/ Crash
    \/ \E skew \in Skews : ClockRegress(skew)

SpecRemote == Init /\ [][NextRemote]_vars

----------------------------------------------------------------------------
(* _calculate_production on its own: a registered session with any bonus,  *)
(* its pending amount computed at one clock value after another            *)

Elapsed == 0..MaxElapsed

\* a worker in its loop, its session initialized at T0 with a bonus between
\* 0 and 1.0
InitProduction ==
    /\ pc = "mining"
    /\ now = T0
    /\ \E b \in 0..BonusUnit :
           data = [DefaultData EXCEPT !.start_time = T0, !.referral_bonus = b]
    /\ active = TRUE
    /\ minerStart = T0
    /\ file = AbsentFile
    /\ loadResult = "none"
    /\ script = NoScript
    /\ tries = 0
    /\ slept = <<>>
    /\ callEnd = "none"
    /\ result = NoResponse
    /\ payload = NoPayload
    /\ computedAt = None
    /\ pendingFlush = NoFlush
    /\ report = NoReport
    /\ runs = 1
    /\ cycles = 0
    /\ calls = 0
    /\ regressions = 0
    /\ interrupted = "none"
    /\ acked = NoAck
    /\ SupervisorOff
    /\ sessions = [w \in Wallets |-> DefaultData]

\* _update_server_balance up to the remote call, at clock value t: the first
\* one of the loop, or the next one after a push that failed
ProductionAt(t) ==
    /\ pc \in {"mining", "push"}
    /\ t >= now
    /\ t > computedAt
    /\ now' = t
    /\ BeginUpdate(FALSE, t)
    /\ pc' = "push"
    /\ UNCHANGED <<data, active, minerStart, file, loadResult, pendingFlush,
                   report, runs, cycles, calls, regressions, interrupted, acked>>
    /\ UNCHANGED supVars

NextProduction == \E e \in Elapsed : ProductionAt(T0 + e)

SpecProduction == InitProduction /\ [][NextProduction]_vars

----------------------------------------------------------------------------
(* MiningSupervisor: start_operation over a list of wallets and the SIGINT *)
(* handler, each miner reduced to its session, its `active` flag and the   *)
(* reconciliations it performs                                             *)

\* the session a wallet's file holds after an earlier run: initialized one
\* interval before T0 and one periodic push committed at T0
EarlierSession ==
    LET d == InitializedData(DefaultData,
                 [got |-> TRUE, ok |-> TRUE, isRegistered |-> TRUE, bonus |-> 0],
                 T0 - Interval)
    IN  CommitData(d, NewBalance(d, Production(d, T0), FALSE), FALSE)

\* CryptoMiner.__init__: a fresh session, or the one loaded from the file
StartSessions == {DefaultData, EarlierSession}

InitSupervisor ==
    /\ WorkerInit
    /\ SupervisorOff
    /\ sessions \in [Wallets -> StartSessions]

\* list.remove(x)
Remove(q, x) == SelectSeq(q, LAMBDA y : y # x)

Members(q) == {q[i] : i \in 1..Len(q)}

\* `time.time() - self.session.data['start_time']` raises TypeError on None
ProductionRaises(d) == d.start_time = None

\* what check_registration may return to initialize_miner
RegistrationResults == RegistrationResponses \cup {NoResponse}

\* load_addresses and the list of miners, one per address
CreateMiners(n) ==
    /\ sup = "off"
    /\ configured' = n
    /\ miners' = [i \in 1..n |-> i]
    /\ cursor' = 0
    /\ sup' = IF n = 0 THEN "returned" ELSE "initializing"
    /\ UNCHANGED <<current, phase, sessions, actives, attempted, ticks, finals,
                   handlers, signals>>
    /\ UNCHANGED workerVars

\* one pass of `for miner in self.miners`: initialize_miner, and the miner's
\* removal from the list being iterated when it returns False
InitializeNext(r) ==
    /\ sup = "initializing"
    /\ cursor < Len(miners)
    /\ LET m == miners[cursor + 1]
       IN  IF RegistrationRefused(r)
           THEN /\ attempted' = [attempted EXCEPT ![m] = "refused"]
                /\ miners' = Remove(miners, m)
                /\ UNCHANGED <<sessions, actives>>
           ELSE /\ attempted' = [attempted EXCEPT ![m] = "accepted"]
                /\ sessions' = [sessions EXCEPT ![m] = InitializedData(@, r, now)]
                /\ actives' = [actives EXCEPT ![m] = TRUE]
                /\ UNCHANGED miners
    /\ cursor' = cursor + 1
    /\ UNCHANGED <<sup, configured, current, phase, ticks, finals, handlers,
                   signals>>
    /\ UNCHANGED workerVars

\* the first loop is exhausted: signal.signal, then the second loop begins
InstallHandler ==
    /\ sup = "initializing"
    /\ cursor >= Len(miners)
    /\ sup' = "running"
    /\ cursor' = 0
    /\ UNCHANGED <<configured, miners, current, phase, sessions, actives,
                   attempted, ticks, finals, handlers, signals>>
    /\ UNCHANGED workerVars

\* one pass of the second loop: miner.run_mining_cycle() is called
RunNextMiner ==
    /\ sup = "running"
    /\ handlers = <<>>
    /\ current = 0
    /\ cursor < Len(miners)
    /\ current' = miners[cursor + 1]
    /\ phase' = "test"
    /\ cursor' = cursor + 1
    /\ UNCHANGED <<sup, configured, miners, sessions, actives, attempted, ticks,
                   finals, handlers, signals>>
    /\ UNCHANGED workerVars

\* run_mining_cycle of the current miner: `while self.active` finds the flag
\* True and the mining interval passes (the clock stands still once the miner
\* has made MaxTicks passes)
MinerInterval ==
    /\ sup = "running"
    /\ handlers = <<>>
    /\ current # 0
    /\ phase = "test"
    /\ actives[current]
    /\ phase' = "interval"
    /\ now' = IF ticks[current] < MaxTicks THEN now + Interval ELSE now
    /\ UNCHANGED <<sup, configured, miners, cursor, current, sessions, actives,
                   attempted, ticks, finals, handlers, signals>>
    /\ UNCHANGED <<pc, data, active, minerStart, file, loadResult, script, tries,
                   slept, callEnd, result, payload, computedAt, pendingFlush,
                   report, runs, cycles, calls, regressions, interrupted, acked>>

\* run_mining_cycle of the current miner: _update_server_balance(), and back
\* to the top of the loop (passes after the first MaxTicks are neither counted
\* nor given an effect on the session)
Tick(ok) ==
    /\ sup = "running"
    /\ handlers = <<>>
    /\ current # 0
    /\ phase = "interval"
    /\ phase' = "test"
    /\ LET d == sessions[current]
       IN  IF ticks[current] < MaxTicks
           THEN /\ ticks' = [ticks EXCEPT ![current] = @ + 1]
                /\ sessions' = [sessions EXCEPT ![current] =
                       IF ok THEN CommitData(d, NewBalance(d, Production(d, now), FALSE), FALSE)
                       ELSE d]
           ELSE UNCHANGED <<ticks, sessions>>
    /\ UNCHANGED <<sup, configured, miners, cursor, current, actives, attempted,
                   finals, handlers, signals>>
    /\ UNCHANGED workerVars

\* run_mining_cycle returns: `while self.active` finds the flag False
CycleReturns ==
    /\ sup = "running"
    /\ handlers = <<>>
    /\ current # 0
    /\ phase = "test"
    /\ ~actives[current]
    /\ current' = 0
    /\ UNCHANGED <<sup, configured, miners, cursor, phase, sessions, actives,
                   attempted, ticks, finals, handlers, signals>>
    /\ UNCHANGED workerVars

\* the second loop is exhausted: start_operation returns and the process ends
StartOperationReturns ==
    /\ sup = "running"
    /\ handlers = <<>>
    /\ current = 0
    /\ cursor >= Len(miners)
    /\ sup' = "returned"
    /\ UNCHANGED <<configured, miners, cursor, current, phase, sessions,
                   actives, attempted, ticks, finals, handlers, signals>>
    /\ UNCHANGED workerVars

\* SIGINT with the handler installed: emergency_stop is entered on top of
\* whatever is running, another emergency_stop included
Sigint ==
    /\ sup = "running"
    /\ signals < MaxSignals
    /\ signals' = signals + 1
    /\ handlers' = Append(handlers, 0)
    /\ UNCHANGED <<sup, configured, miners, cursor, current, phase, sessions,
                   actives, attempted, ticks, finals>>
    /\ UNCHANGED workerVars

\* one pass of emergency_stop's loop in the innermost handler: miner.shutdown()
EmergencyStopNext(ok) ==
    /\ sup = "running"
    /\ handlers # <<>>
    /\ LET top == Len(handlers)
           c == handlers[top]
       IN  /\ c < Len(miners)
           /\ LET m == miners[c + 1]
                  d == sessions[m]
              IN  /\ actives' = [actives EXCEPT ![m] = FALSE]
                  /\ IF ProductionRaises(d)
                     THEN /\ sup' = "died"
                          /\ UNCHANGED <<sessions, finals, handlers>>
                     ELSE /\ finals' = [finals EXCEPT ![m] = @ + 1]
                          /\ sessions' = [sessions EXCEPT ![m] =
                                 IF ok THEN CommitData(d, NewBalance(d, Production(d, now), TRUE), TRUE)
                                 ELSE d]
                          /\ handlers' = [handlers EXCEPT ![top] = c + 1]
                          /\ UNCHANGED sup
    /\ UNCHANGED <<configured, miners, cursor, current, phase, attempted, ticks,
                   signals>>
    /\ UNCHANGED workerVars

\* emergency_stop's loop is exhausted: exit()
EmergencyStopExit ==
    /\ sup = "running"
    /\ handlers # <<>>
    /\ handlers[Len(handlers)] >= Len(miners)
    /\ sup' = "exited"
    /\ UNCHANGED <<configured, miners, cursor, current, phase, sessions,
                   actives, attempted, ticks, finals, handlers, signals>>
    /\ UNCHANGED workerVars

\* what the process does when it is scheduled
SupervisorStep ==
    \/ \E n \in 0..NWallets : CreateMiners(n)
    \/ \E r \in RegistrationResults : InitializeNext(r)
    \/ InstallHandler
    \/ RunNextMiner
    \/ MinerInterval
    \/ \E ok \in BOOLEAN : Tick(ok)
    \/ CycleReturns
    \/ StartOperationReturns
    \/ \E ok \in BOOLEAN : EmergencyStopNext(ok)
    \/ EmergencyStopExit

NextSupervisor == SupervisorStep \/ Sigint

SpecSupervisor == InitSupervisor /\ [][NextSupervisor]_vars

\* the process keeps running while it has something to do
FairSupervisor == SpecSupervisor /\ WF_vars(SupervisorStep)

----------------------------------------------------------------------------
(* Claims *)

\* whether the push that `result` answers was acknowledged
Acknowledged == result.got /\ result.ok

\* C1: after each successful reconciliation computed at time t, the committed
\* total_earned is the production accrued over t - start_time: every interval
\* of elapsed time is credited exactly once.
C1_CreditedOnce ==
    pc \in {"saving", "final_saving"} =>
        data.total_earned =
            RateMicro * (computedAt - data.start_time) * (BonusUnit + data.referral_bonus)

\* C2: when a periodic push fails, the tick commits nothing: the session in
\* memory and the session file stay as they were; the totals and the file
\* change only in a step that follows an acknowledged push.
C2_FailedPushCommitsNothing ==
    [][/\ (pc = "push_ret" /\ ~Acknowledged /\ pc' = "mining") =>
              (data' = data /\ file' = file)
       /\ (/\ pc # "off" /\ pc' # "off"
           /\ \/ data'.total_earned # data.total_earned
              \/ data'.paid_out # data.paid_out
              \/ file' # file) =>
              \/ pc \in {"push_ret", "final_ret"} /\ Acknowledged
              \/ pc \in {"saving", "final_saving"}]_vars

\* a failed tick came back to the loop after an earlier tick was committed
C2_Witness ==
    /\ pc = "mining"
    /\ cycles = 2
    /\ ~result.got
    /\ data.total_earned > 0
    /\ file = [state |-> "ok", rec |-> data]

\* C3: a successful final reconciliation with pending amount p pushes
\* {total: total_earned + p, pending: 0, paid: paid_out + p}, commits
\* total_earned += p and paid_out += p, and persists; 10, 2 and 3 give 13 and 5.
C3_Example == [start_time |-> T0, total_earned |-> 10, paid_out |-> 2, referral_bonus |-> 0]

C3_FinalSettlement ==
    /\ CommitData(C3_Example, NewBalance(C3_Example, 3, TRUE), TRUE)
           = [C3_Example EXCEPT !.total_earned = 13, !.paid_out = 5]
    /\ [][/\ (pc = "final_ret" /\ Acknowledged /\ pc' = "final_saving") =>
                 LET p == RateMicro * (computedAt - data.start_time)
                              * (BonusUnit + data.referral_bonus)
                 IN  /\ payload = [total |-> data.total_earned + p,
                                   pending |-> 0,
                                   paid |-> data.paid_out + p]
                     /\ data' = [data EXCEPT !.total_earned = @ + p,
                                             !.paid_out = @ + p]
          /\ (pc = "final_saving" /\ pc' = "final_report") =>
                 (data' = data /\ file' = [state |-> "ok", rec |-> data])]_vars

\* a final reconciliation that settled a positive amount on top of earlier
\* earnings and payouts has been persisted
C3_Witness ==
    /\ pc = "final_report"
    /\ Acknowledged
    /\ data.paid_out > 0
    /\ data.total_earned > data.paid_out
    /\ file = [state |-> "ok", rec |-> data]

\* C4: total_earned >= paid_out in every reachable state, in memory and in the
\* persisted record.
C4_EarnedCoversPaid ==
    /\ data.total_earned >= data.paid_out
    /\ file.state = "ok" => file.rec.total_earned >= file.rec.paid_out

\* C5: within a process start_time, once set, never changes and the bonus is
\* captured only when start_time is first set; a start loads the persisted
\* record as it is, and initialization on a loaded session leaves the four
\* fields unchanged whatever bonus the registration response carries.
C5_StartTimeSetOnce ==
    [][/\ (pc # "off" /\ pc' # "off" /\ data.start_time # None) =>
              /\ data'.start_time = data.start_time
              /\ data'.referral_bonus = data.referral_bonus
       /\ (pc # "off" /\ pc' # "off" /\ data'.referral_bonus # data.referral_bonus) =>
              (data.start_time = None /\ data'.start_time # None)
       /\ (pc = "off" /\ pc' # "off" /\ file.state = "ok") => data' = file.rec
       /\ (pc = "reg_ret" /\ pc' = "mining" /\ loadResult = "true") => data' = data]_vars

\* initialization has run on a loaded session whose bonus differs from the one
\* the registration response carried
C5_Witness ==
    /\ pc = "mining"
    /\ loadResult = "true"
    /\ result.isRegistered
    /\ result.bonus # data.referral_bonus
    /\ data = file.rec
    /\ data.total_earned > 0

\* C6: save is all-or-nothing: after the process is killed during save the
\* file holds a complete record (the previous one or the new one).
C6_SaveAllOrNothing == pc = "off" => file.state # "partial"

\* the outcomes of a call's attempts up to its first one that is not a
\* transient failure (none when all five fail transiently)
FirstFinal ==
    {k \in 1..5 : /\ script[k].kind # "transient"
                  /\ \A j \in 1..(k - 1) : script[j].kind = "transient"}

Returned == pc \in {"reg_ret", "push_ret"}

\* C7: a remote call makes at most 5 attempts, waits 2^k seconds after a
\* transient failure on attempt k, returns the first response obtained, returns
\* failure after the 5th transient failure, and counts from 0 in every call.
C7_RetryPolicy ==
    Returned =>
        /\ tries <= 5
        /\ slept = SubSeq(<<1, 2, 4, 8, 16>>, 1, Len(slept))
        /\ \A k \in FirstFinal :
               script[k].kind = "response" =>
                   (result = script[k].resp /\ tries = k /\ Len(slept) = k - 1)
        /\ FirstFinal = {} =>
               (~result.got /\ tries = 5 /\ slept = <<1, 2, 4, 8, 16>>)

\* the second call of a run exhausted its five attempts
C7_Witness ==
    /\ pc = "push_ret"
    /\ calls = 2
    /\ callEnd = "exhausted"
    /\ slept = <<1, 2, 4, 8, 16>>

\* C8: a non-transient failure on any attempt ends the call at once, with no
\* further attempt and no wait, and returns the failure value that exhausted
\* retries return; the worker skips the tick's commit in both cases.
C8_RejectedAborts ==
    /\ [](Returned =>
            /\ \A k \in FirstFinal :
                   script[k].kind = "rejected" =>
                       (result = NoResponse /\ tries = k /\ Len(slept) = k - 1)
            /\ FirstFinal = {} => result = NoResponse)
    /\ [][(/\ pc = "push_ret"
           /\ \/ FirstFinal = {}
              \/ \E k \in FirstFinal : script[k].kind = "rejected") =>
              (pc' = "mining" /\ data' = data /\ file' = file)]_vars

\* update_balance was rejected on its third attempt
C8_Witness ==
    /\ pc = "push_ret"
    /\ callEnd = "rejected"
    /\ tries = 3
    /\ slept = <<1, 2>>

\* C9: when the final push fails, shutdown's report differs from the report of
\* a successful final settlement: it is an explicit unsettled-balance failure.
C9_FailedFinalReported ==
    (pc = "stopped" /\ ~Acknowledged) => report.kind = "unsettled"

\* C10: a wallet whose persisted session is malformed is not started from a
\* fresh session: it stays out of the active set and its file is left alone.
C10_CorruptExcluded ==
    loadResult = "false" => (~active /\ data.start_time = None /\ file.state = "partial")

\* C11: after the supervisor's initialization every configured wallet had its
\* registration attempted, the list of miners holds exactly the wallets whose
\* registration succeeded, and each of these is active with start_time set,
\* wherever it stands relative to a refused one.
C11_ActiveSetExact ==
    sup = "running" =>
        \A w \in 1..configured :
            /\ attempted[w] # "untried"
            /\ (w \in Members(miners)) <=> (attempted[w] = "accepted")
            /\ attempted[w] = "accepted" =>
                   (actives[w] /\ sessions[w].start_time # None)

\* C12: once a termination signal has been delivered no miner performs the
\* final reconciliation twice, and when the handler ends the process every
\* miner of the supervisor's list has performed it once.
C12_FinalExactlyOnce ==
    /\ \A w \in Wallets : finals[w] <= 1
    /\ sup = "exited" => \A w \in Members(miners) : finals[w] = 1

\* C13: while no termination signal is delivered, every active wallet of the
\* running supervisor eventually performs a periodic reconciliation, whatever
\* the other wallets' loops do.
C13_EveryActiveTicks ==
    \A w \in Wallets :
        (sup = "running" /\ actives[w]) ~> (ticks[w] > 0 \/ signals > 0)

\* C14: the final push of a wallet starts only when no periodic push of that
\* wallet is in flight or returned with its commit still to be applied or
\* skipped.
C14_OnePushInFlight ==
    pc = "final" => interrupted \notin {"push", "push_ret"}

\* C15: outside the window between an acknowledged push and the end of its
\* local commit, the persisted record of an initialized worker equals its
\* session in memory field by field.
C15_PersistedEqualsMemory ==
    (pc \in {"mining", "push"} \/ (pc = "push_ret" /\ ~Acknowledged)) =>
        file = [state |-> "ok", rec |-> data]

\* C16: once initialize_miner has succeeded, a persisted record with the
\* session's start_time and referral_bonus exists.
C16_SessionCreatedAtRegistration ==
    pc = "mining" =>
        /\ file.state = "ok"
        /\ file.rec.start_time = data.start_time
        /\ file.rec.referral_bonus = data.referral_bonus

\* C17: no balance is ever computed for a clock value earlier than start_time,
\* so no negative pending amount is pushed or committed.
C17_PendingNeverNegative ==
    computedAt # None =>
        /\ computedAt >= data.start_time
        /\ payload.pending >= 0
        /\ payload.total >= payload.paid

\* C18: for every elapsed time t >= 0 and bonus b >= 0 the pending amount is
\* BASE_RATE * t * SCALE * (1 + b) (755 * t * (10 + b) in the model's units), is
\* non-negative and strictly increasing in t; t = 100 and b = 0 give 0.755.
C18_ProductionFormula ==
    /\ [](pc = "push" =>
            LET t == computedAt - data.start_time
                b == data.referral_bonus
            IN  /\ payload.pending = 755 * t * (10 + b)
                /\ payload.pending >= 0
                /\ (t = 100 /\ b = 0) => payload.pending = 755000)
    /\ [][(pc = "push" /\ pc' = "push" /\ computedAt' > computedAt) =>
              payload'.pending > payload.pending]_vars

\* the pending amount was computed for 100 s of operation and no bonus
C18_Witness ==
    /\ pc = "push"
    /\ computedAt - data.start_time = 100
    /\ data.referral_bonus = 0
    /\ payload.pending = 755000

\* C19: only a miner whose registration was accepted in this process performs
\* a periodic or a final reconciliation, and shutdown never computes the
\* production of a session whose start_time is unset.
C19_OnlyRegisteredPush ==
    /\ \A w \in Wallets :
           (ticks[w] > 0 \/ finals[w] > 0) => attempted[w] = "accepted"
    /\ sup # "died"

\* C20: each total the remote service acknowledges is at least the total it
\* acknowledged before, across failed ticks, kills and restarts.
C20_AckedTotalsNonDecreasing ==
    [][(acked.got /\ acked'.got) => acked'.total >= acked.total]_vars

============================================================================
